---------------------------- MODULE Spec2Model ----------------------------
(***************************************************************************)
(* Model of src/main.py: a document loader, a fixed-size character         *)
(* chunker, a boolean-scored chunk selector, a keyword question classifier *)
(* and the interactive summarise-then-chat driver built on them.           *)
(*                                                                         *)
(* Text is a sequence of one-character strings.  The two model pipelines   *)
(* (question answering, summarisation) are opaque: a call either returns   *)
(* a value drawn from a small set or raises.                               *)
(***************************************************************************)
EXTENDS Integers, Sequences, FiniteSets, TLC

VARIABLES
    pc,              \* position of the control flow
    file_path,       \* main: file_path (after strip)
    text,            \* document_text / the text parameter; None before load
    max_chunk_size,  \* the max_chunk_size parameter of the running function
    chunks,          \* the chunks list of the running function
    summary_texts,   \* summarize_document: summary_texts
    query,           \* chat_with_document: query
    answer_length,   \* chat_with_document: answer_length
    best_chunk,      \* chat_with_document: best_chunk
    calls,           \* every call made to a pipeline or extraction routine
    out,             \* everything shown on the terminal, in order
    exit_status,     \* process exit status, -1 while running
    asked            \* number of non-exit queries read so far

vars == <<pc, file_path, text, max_chunk_size, chunks, summary_texts, query,
          answer_length, best_chunk, calls, out, exit_status, asked>>

----------------------------------------------------------------------------
(* Bounds of the model *)

MaxLen == 4          \* longest text given to the chunker / selector alone
MaxSize == 3         \* largest chunk size given to the chunker / selector alone
MaxQueryLen == 2     \* longest query given to the selector alone
MaxFragments == 3    \* fragments per query given to the classifier alone
MaxQueries == 2      \* non-exit queries per chat session

----------------------------------------------------------------------------
(* Characters and strings *)

UpperChars == <<"A","B","C","D","E","F","G","H","I","J","K","L","M",
                "N","O","P","Q","R","S","T","U","V","W","X","Y","Z">>
LowerChars == <<"a","b","c","d","e","f","g","h","i","j","k","l","m",
                "n","o","p","q","r","s","t","u","v","w","x","y","z">>

\* the lowercase letter of every uppercase letter
LowerOf ==
    [c \in {UpperChars[i] : i \in 1..26} |->
        LowerChars[CHOOSE i \in 1..26 : UpperChars[i] = c]]

\* str.lower() on one character
LowerChar(c) == IF c \in DOMAIN LowerOf THEN LowerOf[c] ELSE c

\* str.lower()
Lower(s) == [i \in 1..Len(s) |-> LowerChar(s[i])]

\* the `in` operator on strings: sub in s
Contains(sub, s) ==
    \E i \in 0..(Len(s) - Len(sub)) : \A j \in 1..Len(sub) : s[i + j] = sub[j]

Min(a, b) == IF a < b THEN a ELSE b

\* s[i:j] for 0 <= i <= j
Slice(s, i, j) == SubSeq(s, Min(i, Len(s)) + 1, Min(j, Len(s)))

\* list(range(0, n, step)) for step > 0
Range0(n, step) ==
    [k \in 1..((n + step - 1) \div step) |-> (k - 1) * step]

\* str.strip() (whitespace is the space character here)
RECURSIVE LStrip(_)
LStrip(s) == IF s # <<>> /\ Head(s) = " " THEN LStrip(Tail(s)) ELSE s
RECURSIVE RStrip(_)
RStrip(s) ==
    IF s # <<>> /\ s[Len(s)] = " " THEN RStrip(SubSeq(s, 1, Len(s) - 1)) ELSE s
Strip(s) == RStrip(LStrip(s))

\* sep.join(parts)
RECURSIVE Join(_, _)
Join(parts, sep) ==
    IF parts = <<>> THEN <<>>
    ELSE IF Len(parts) = 1 THEN parts[1]
    ELSE parts[1] \o sep \o Join(Tail(parts), sep)

\* s.split(".")[-1]: the part after the last ".", the whole of s without one
RECURSIVE SplitDotLast(_)
SplitDotLast(s) ==
    IF \E i \in 1..Len(s) : s[i] = "."
    THEN SplitDotLast(SubSeq(s, (CHOOSE i \in 1..Len(s) : s[i] = ".") + 1, Len(s)))
    ELSE s

None == <<"None">>   \* Python's None; no text holds this element

\* Truthy as `is not None`: the empty string passes
TruthyNotNone(t) == t # None

\* truth value of `if document_text:`
Truthy(t) == t # None /\ t # <<>>

----------------------------------------------------------------------------
(* The pure functions of main.py *)

\* ChunkList with range() stopping before a last, shorter chunk
ChunkListDropsRemainder(t, size) ==
    [k \in 1..(Len(t) \div size) |-> Slice(t, (k - 1) * size, k * size)]

\* [text[i:i + max_chunk_size] for i in range(0, len(text), max_chunk_size)]
ChunkList(t, size) ==
    LET starts == Range0(Len(t), size)
    IN  [k \in 1..Len(starts) |-> Slice(t, starts[k], starts[k] + size)]

\* key of find_best_chunk's max: query.lower() in chunk.lower()
ChunkKey(q, chunk) == Contains(Lower(q), Lower(chunk))

\* KeyBeats with >= in place of >: a later equal key replaces the best
KeyBeatsOrTies(k, best) == k \/ ~best

\* the comparison max() makes between a later key and the best key so far
KeyBeats(k, best) == k /\ ~best

\* max(seq, key=...): the first element whose key no later element beats
RECURSIVE PyMaxFrom(_, _, _, _)
PyMaxFrom(seq, q, i, best) ==
    IF i > Len(seq) THEN best
    ELSE IF KeyBeats(ChunkKey(q, seq[i]), ChunkKey(q, best))
         THEN PyMaxFrom(seq, q, i + 1, seq[i])
         ELSE PyMaxFrom(seq, q, i + 1, best)

\* find_best_chunk(text, query, max_chunk_size); max() of an empty list raises
find_best_chunk(t, q, size) ==
    LET cs == ChunkList(t, size)
    IN  IF cs = <<>> THEN [raised |-> TRUE, value |-> <<>>]
        ELSE [raised |-> FALSE, value |-> PyMaxFrom(cs, q, 2, cs[1])]

short_keywords == << <<"w","h","o">>, <<"w","h","e","n">>,
                     <<"w","h","e","r","e">>,
                     <<"h","o","w"," ","m","a","n","y">>,
                     <<"h","o","w"," ","m","u","c","h">> >>

long_keywords == << <<"e","x","p","l","a","i","n">>,
                    <<"d","e","s","c","r","i","b","e">>,
                    <<"w","h","a","t"," ","a","r","e">>,
                    <<"h","o","w"," ","d","o","e","s">>,
                    <<"w","h","y">>,
                    <<"i","m","p","a","c","t">>,
                    <<"e","f","f","e","c","t","s">> >>

\* any(keyword in question.lower() for keyword in keywords)
AnyKeyword(keywords, question) ==
    \E k \in 1..Len(keywords) : Contains(keywords[k], Lower(question))

\* classify_question_length with the two tests in the other order
classify_long_first(question) ==
    IF AnyKeyword(long_keywords, question) THEN "long"
    ELSE IF AnyKeyword(short_keywords, question) THEN "short"
    ELSE "medium"

classify_question_length(question) ==
    IF AnyKeyword(short_keywords, question) THEN "short"
    ELSE IF AnyKeyword(long_keywords, question) THEN "long"
    ELSE "medium"

----------------------------------------------------------------------------
(* The chunker, the selector and the classifier on their own: Init draws   *)
(* the arguments, one action makes the call and stores what it returns.    *)

Alphabet == {"a", "A", "b"}

Texts(n) == UNION {[1..k -> Alphabet] : k \in 0..n}

\* pieces out of which the classifier's queries are put together
Fragments ==
    { <<"w","h">>,
      <<"o">>,
      <<"y">>,
      <<"W","h","e","n">>,
      <<"w","h","e","r","e">>,
      <<"h","o","w"," ">>,
      <<"m","a","n","y">>,
      <<"m","u","c","h">>,
      <<"e","x","p","l","a","i","n">>,
      <<"D","e","s","c","r","i","b","e">>,
      <<"w","h","a","t"," ","a","r","e">>,
      <<"d","o","e","s">>,
      <<"I","M","P","A","C","T">>,
      <<"e","f","f","e","c","t","s">>,
      <<" ">> }

RECURSIVE Flatten(_)
Flatten(ss) == IF ss = <<>> THEN <<>> ELSE Head(ss) \o Flatten(Tail(ss))

FragmentQueries ==
    {Flatten(fs) : fs \in UNION {[1..k -> Fragments] : k \in 0..MaxFragments}}

\* the variables of main's run, untouched while a function is run alone
MainIdle ==
    /\ file_path = <<>>
    /\ summary_texts = <<>>
    /\ calls = <<>>
    /\ out = <<>>
    /\ exit_status = -1
    /\ asked = 0

InitChunker ==
    /\ pc = "chunker_call"
    /\ text \in Texts(MaxLen)
    /\ max_chunk_size \in 1..MaxSize
    /\ chunks = <<>>
    /\ query = <<>>
    /\ answer_length = "none"
    /\ best_chunk = <<>>
    /\ MainIdle

\* main.py line 42 / line 100 as a call of its own
ChunkerCall ==
    /\ pc = "chunker_call"
    /\ chunks' = ChunkList(text, max_chunk_size)
    /\ pc' = "chunker_done"
    /\ UNCHANGED <<file_path, text, max_chunk_size, summary_texts, query,
                   answer_length, best_chunk, calls, out, exit_status, asked>>

SpecChunker == InitChunker /\ [][ChunkerCall]_vars

InitSelector ==
    /\ pc = "selector_call"
    /\ text \in Texts(MaxLen)
    /\ max_chunk_size \in 1..MaxSize
    /\ query \in Texts(MaxQueryLen)
    /\ chunks = <<>>
    /\ answer_length = "none"
    /\ best_chunk = <<>>
    /\ MainIdle

\* a call of find_best_chunk(text, query, max_chunk_size)
SelectorCall ==
    /\ pc = "selector_call"
    /\ LET r == find_best_chunk(text, query, max_chunk_size)
       IN  /\ chunks' = ChunkList(text, max_chunk_size)
           /\ best_chunk' = r.value
           /\ pc' = IF r.raised THEN "selector_raised" ELSE "selector_done"
    /\ UNCHANGED <<file_path, text, max_chunk_size, summary_texts, query,
                   answer_length, calls, out, exit_status, asked>>

SpecSelector == InitSelector /\ [][SelectorCall]_vars

InitClassifier ==
    /\ pc = "classifier_call"
    /\ query \in FragmentQueries
    /\ text = None
    /\ max_chunk_size = 0
    /\ chunks = <<>>
    /\ answer_length = "none"
    /\ best_chunk = <<>>
    /\ MainIdle

\* a call of classify_question_length(query)
ClassifierCall ==
    /\ pc = "classifier_call"
    /\ answer_length' = classify_question_length(query)
    /\ pc' = "classifier_done"
    /\ UNCHANGED <<file_path, text, max_chunk_size, chunks, summary_texts,
                   query, best_chunk, calls, out, exit_status, asked>>

SpecClassifier == InitClassifier /\ [][ClassifierCall]_vars

----------------------------------------------------------------------------
(* Properties of the chunker, the selector and the classifier *)

\* C1: for every text and every chunk size S > 0 the chunks are a partition
\* of the text: joined in order they give the text back, every chunk but the
\* last has length S, the last has length len mod S (S when S divides len),
\* no chunk is empty, and the empty text has no chunks.
C1_ChunksPartitionText ==
    pc = "chunker_done" =>
        LET n == Len(chunks)
            r == Len(text) % max_chunk_size
        IN  /\ Flatten(chunks) = text
            /\ \A k \in 1..(n - 1) : Len(chunks[k]) = max_chunk_size
            /\ n > 0 => Len(chunks[n]) = (IF r = 0 THEN max_chunk_size ELSE r)
            /\ \A k \in 1..n : chunks[k] # <<>>
            /\ text = <<>> => chunks = <<>>

C1_Witness ==
    /\ pc = "chunker_done"
    /\ Len(chunks) >= 2
    /\ Len(chunks[Len(chunks)]) < max_chunk_size

\* the indices of the chunks whose lowercased text holds the lowercased query
Hits(cs, q) == {k \in 1..Len(cs) : Contains(Lower(q), Lower(cs[k]))}

SetMin(S) == CHOOSE x \in S : \A y \in S : x <= y

\* what the selection policy asks for: first hit, else first chunk
FirstHitOrFirst(cs, q) ==
    IF Hits(cs, q) # {} THEN cs[SetMin(Hits(cs, q))] ELSE cs[1]

\* C2: for a non-empty text find_best_chunk returns (never raises) one chunk
\* of the text's chunk sequence: the lowest-index chunk whose lowercased text
\* contains the lowercased query, and the first chunk when none does, also
\* when the query occurs in the text only across a chunk boundary.
C2_FirstHitElseFirstChunk ==
    /\ pc = "selector_raised" => text = <<>>
    /\ pc = "selector_done" =>
           /\ \E k \in 1..Len(chunks) : best_chunk = chunks[k]
           /\ best_chunk = FirstHitOrFirst(chunks, query)

C2_Witness ==
    /\ pc = "selector_done"
    /\ Hits(chunks, query) # {}
    /\ Cardinality(Hits(chunks, query)) >= 2
    /\ SetMin(Hits(chunks, query)) > 1
    /\ Lower(query) # query
    /\ best_chunk = chunks[SetMin(Hits(chunks, query))]

\* the query is in the text but in no chunk; the first chunk is returned
C2_BoundaryCase ==
    /\ pc = "selector_done"
    /\ Contains(Lower(query), Lower(text))
    /\ Hits(chunks, query) = {}
    /\ Len(chunks) >= 2
    /\ best_chunk = chunks[1]

ShortCues ==
    { <<"w","h","o">>, <<"w","h","e","n">>, <<"w","h","e","r","e">>,
      <<"h","o","w"," ","m","a","n","y">>, <<"h","o","w"," ","m","u","c","h">> }

LongCues ==
    { <<"e","x","p","l","a","i","n">>, <<"d","e","s","c","r","i","b","e">>,
      <<"w","h","a","t"," ","a","r","e">>, <<"h","o","w"," ","d","o","e","s">>,
      <<"w","h","y">>, <<"i","m","p","a","c","t">>,
      <<"e","f","f","e","c","t","s">> }

HasCue(cues, q) == \E c \in cues : Contains(c, Lower(q))

\* C3: every query is classified, as short when its lowercased text holds a
\* short cue (whether or not it also holds a long cue), otherwise as long
\* when it holds a long cue, otherwise as medium.
C3_ShortThenLongThenMedium ==
    pc = "classifier_done" =>
        /\ answer_length \in {"short", "medium", "long"}
        /\ HasCue(ShortCues, query) => answer_length = "short"
        /\ ~HasCue(ShortCues, query) /\ HasCue(LongCues, query)
               => answer_length = "long"
        /\ ~HasCue(ShortCues, query) /\ ~HasCue(LongCues, query)
               => answer_length = "medium"

C3_Witness ==
    /\ pc = "classifier_done"
    /\ HasCue(ShortCues, query)
    /\ HasCue(LongCues, query)
    /\ Lower(query) # query
    /\ answer_length = "short"

C3_WitnessLong == pc = "classifier_done" /\ answer_length = "long"

C3_WitnessMedium == pc = "classifier_done" /\ answer_length = "medium"

----------------------------------------------------------------------------
(* The program run from the main entry point *)

SummaryChunkSize == 800    \* summarize_document: max_chunk_size default
ChatChunkSize == 1500      \* chat_with_document: max_chunk_size default
DocMaxLength == 200        \* summarize_document: max_length
DocMinLength == 50         \* summarize_document: min_length
LongMaxLength == 500       \* chat, long answer: max_length
LongMinLength == 150       \* chat, long answer: min_length
MediumMaxLength == 300     \* chat, medium answer: max_length
MediumMinLength == 100     \* chat, medium answer: min_length

Rep(c, n) == [i \in 1..n |-> c]

\* what is typed at the path prompt
RawPaths ==
    { <<" ","n",".","T","X","T"," ">>,
      <<"A",".","P","d","f">>,
      <<"b",".","d","o","c","x">>,
      <<"t","x","t">>,
      <<"a",".","r","t","f">>,
      <<"a",".","b","/","t","x","t">>,
      <<>> }

DocShort == <<"T","h","e"," ","c","a","t"," ","s","a","t">>

\* two summary chunks, two chat chunks; "WHO" lies across offset 1500
DocLong ==
    Rep("x", 1498) \o <<"W","H","O">> \o <<" ","o","n"," ","t","h","e"," ","M","a","t">>

\* what an extraction routine can return
Docs == {<<>>, DocShort, DocLong}

\* what is typed at a chat prompt
ChatInputs ==
    { <<"w","h","o">>,
      <<"M","A","T">>,
      <<"e","x","p","l","a","i","n">>,
      <<" ","e","x","i","t">>,
      <<"e","x","i","t">>,
      <<"E","X","I","T">> }

\* summaries the summarization pipeline can return
SummaryResults == {<<"s">>, <<"t","t">>}

\* answers the question-answering pipeline can return
QaResults == {[answer |-> <<"a">>, score |-> 1]}

pdf == <<"p","d","f">>
docx == <<"d","o","c","x">>
txt == <<"t","x","t">>

Call(fn, arg, q, maxl, minl, raised, result) ==
    [fn |-> fn, arg |-> arg, question |-> q, max_length |-> maxl,
     min_length |-> minl, raised |-> raised, result |-> result]

Line(kind, label, t) == [kind |-> kind, label |-> label, text |-> t]

Init ==
    /\ pc = "load_models"
    /\ file_path = <<>>
    /\ text = None
    /\ max_chunk_size = 0
    /\ chunks = <<>>
    /\ summary_texts = <<>>
    /\ query = <<>>
    /\ answer_length = "none"
    /\ best_chunk = <<>>
    /\ calls = <<>>
    /\ out = <<>>
    /\ exit_status = -1
    /\ asked = 0

\* an exception nothing catches: traceback, exit status 1
Uncaught(shown) ==
    /\ pc' = "crashed"
    /\ exit_status' = 1
    /\ out' = shown \o <<Line("traceback", "", <<>>)>>

\* falling off the end of the script: exit status 0
EndOfScript ==
    /\ pc' = "done"
    /\ exit_status' = 0

\* lines 7-8: the two pipelines are built
LoadModels ==
    /\ pc = "load_models"
    /\ pc' = "input_path"
    /\ UNCHANGED <<file_path, text, max_chunk_size, chunks, summary_texts,
                   query, answer_length, best_chunk, calls, out, exit_status,
                   asked>>

\* lines 7-8: building a pipeline raises
LoadModelsRaises ==
    /\ pc = "load_models"
    /\ Uncaught(out)
    /\ UNCHANGED <<file_path, text, max_chunk_size, chunks, summary_texts,
                   query, answer_length, best_chunk, calls, asked>>

\* line 105
InputPath ==
    /\ pc = "input_path"
    /\ \E raw \in RawPaths : file_path' = Strip(raw)
    /\ out' = Append(out, Line("path_prompt", "", <<>>))
    /\ pc' = "check_exists"
    /\ UNCHANGED <<text, max_chunk_size, chunks, summary_texts, query,
                   answer_length, best_chunk, calls, exit_status, asked>>

\* lines 107-108: os.path.exists is false
FileNotFound ==
    /\ pc = "check_exists"
    /\ out' = Append(out, Line("file_not_found", "", <<>>))
    /\ EndOfScript
    /\ UNCHANGED <<file_path, text, max_chunk_size, chunks, summary_texts,
                   query, answer_length, best_chunk, calls, asked>>

\* lines 107, 109: os.path.exists is true (never for the empty path)
FileExists ==
    /\ pc = "check_exists"
    /\ file_path # <<>>
    /\ pc' = "load_document"
    /\ UNCHANGED <<file_path, text, max_chunk_size, chunks, summary_texts,
                   query, answer_length, best_chunk, calls, out, exit_status,
                   asked>>

\* line 27
Ext(path) == Lower(SplitDotLast(path))

\* lines 28-33: the extraction routine the extension selects, "" for none
Extractor(path) ==
    IF Ext(path) = pdf THEN "extract_text_from_pdf"
    ELSE IF Ext(path) = docx THEN "extract_text_from_docx"
    ELSE IF Ext(path) = txt THEN "extract_text_from_txt"
    ELSE ""

\* lines 110, 25-33: the extraction routine returns the file's text
LoadDocumentExtracts ==
    /\ pc = "load_document"
    /\ Extractor(file_path) # ""
    /\ \E d \in Docs :
          /\ text' = d
          /\ calls' = Append(calls, Call(Extractor(file_path), file_path,
                                         <<>>, 0, 0, FALSE, d))
    /\ pc' = "check_loaded"
    /\ UNCHANGED <<file_path, max_chunk_size, chunks, summary_texts, query,
                   answer_length, best_chunk, out, exit_status, asked>>

\* lines 110, 25-33: the extraction routine raises
LoadDocumentRaises ==
    /\ pc = "load_document"
    /\ Extractor(file_path) # ""
    /\ calls' = Append(calls, Call(Extractor(file_path), file_path,
                                   <<>>, 0, 0, TRUE, None))
    /\ Uncaught(out)
    /\ UNCHANGED <<file_path, text, max_chunk_size, chunks, summary_texts,
                   query, answer_length, best_chunk, asked>>

\* lines 110, 34-36
LoadDocumentUnsupported ==
    /\ pc = "load_document"
    /\ Extractor(file_path) = ""
    /\ out' = Append(out, Line("unsupported_format", "", <<>>))
    /\ text' = None
    /\ pc' = "check_loaded"
    /\ UNCHANGED <<file_path, max_chunk_size, chunks, summary_texts, query,
                   answer_length, best_chunk, calls, exit_status, asked>>

\* lines 111-113: document_text is truthy
Loaded ==
    /\ pc = "check_loaded"
    /\ Truthy(text)
    /\ out' = Append(out, Line("loaded", "", <<>>))
    /\ pc' = "summarize_document"
    /\ UNCHANGED <<file_path, text, max_chunk_size, chunks, summary_texts,
                   query, answer_length, best_chunk, calls, exit_status,
                   asked>>

\* line 111: document_text is None or empty, the script ends
NotLoaded ==
    /\ pc = "check_loaded"
    /\ ~Truthy(text)
    /\ EndOfScript
    /\ UNCHANGED <<file_path, text, max_chunk_size, chunks, summary_texts,
                   query, answer_length, best_chunk, calls, out, asked>>

\* lines 38-43
SummarizeStart ==
    /\ pc = "summarize_document"
    /\ max_chunk_size' = SummaryChunkSize
    /\ out' = Append(out, Line("generating_summary", "", <<>>))
    /\ chunks' = ChunkList(text, SummaryChunkSize)
    /\ summary_texts' = <<>>
    /\ pc' = "summarize_loop"
    /\ UNCHANGED <<file_path, text, query, answer_length, best_chunk, calls,
                   exit_status, asked>>

\* lines 45-47: one turn of the loop, the summarizer returns
SummarizeChunk ==
    /\ pc = "summarize_loop"
    /\ Len(summary_texts) < Len(chunks)
    /\ LET chunk == chunks[Len(summary_texts) + 1]
       IN  \E r \in SummaryResults :
              /\ calls' = Append(calls, Call("summarizer", chunk, <<>>,
                                     DocMaxLength, DocMinLength, FALSE, r))
              /\ summary_texts' = Append(summary_texts, r)
    /\ UNCHANGED <<pc, file_path, text, max_chunk_size, chunks, query,
                   answer_length, best_chunk, out, exit_status, asked>>

\* line 46: the summarizer raises
SummarizeChunkRaises ==
    /\ pc = "summarize_loop"
    /\ Len(summary_texts) < Len(chunks)
    /\ calls' = Append(calls, Call("summarizer",
                           chunks[Len(summary_texts) + 1], <<>>,
                           DocMaxLength, DocMinLength, TRUE, None))
    /\ Uncaught(out)
    /\ UNCHANGED <<file_path, text, max_chunk_size, chunks, summary_texts,
                   query, answer_length, best_chunk, asked>>

\* FinalSummary joining with the empty string
FinalSummaryNoSeparator(parts) == Join(parts, <<>>)

\* line 49
FinalSummary(parts) == Join(parts, <<" ">>)

\* lines 49-52: the loop is over
SummarizeEnd ==
    /\ pc = "summarize_loop"
    /\ Len(summary_texts) = Len(chunks)
    /\ out' = Append(out, Line("summary", "", FinalSummary(summary_texts)))
    /\ pc' = "chat_with_document"
    /\ UNCHANGED <<file_path, text, max_chunk_size, chunks, summary_texts,
                   query, answer_length, best_chunk, calls, exit_status,
                   asked>>

\* lines 114, 66-68
ChatStart ==
    /\ pc = "chat_with_document"
    /\ max_chunk_size' = ChatChunkSize
    /\ out' = Append(out, Line("chatbot_ready", "", <<>>))
    /\ pc' = "chat_prompt"
    /\ UNCHANGED <<file_path, text, chunks, summary_texts, query,
                   answer_length, best_chunk, calls, exit_status, asked>>

\* IsExit without the lower(): only the lowercase spelling ends the loop
IsExitCaseSensitive(q) == q = <<"e","x","i","t">>

\* line 72
IsExit(q) == Lower(q) = <<"e","x","i","t">>

\* lines 71-74: the input is the exit token
ChatExit ==
    /\ pc = "chat_prompt"
    /\ \E q \in ChatInputs :
          /\ IsExit(q)
          /\ query' = q
    /\ out' = out \o <<Line("chat_prompt", "", <<>>),
                       Line("goodbye", "", <<>>)>>
    /\ EndOfScript
    /\ UNCHANGED <<file_path, text, max_chunk_size, chunks, summary_texts,
                   answer_length, best_chunk, calls, asked>>

\* lines 71-72: any other input
ChatAsk ==
    /\ pc = "chat_prompt"
    /\ asked < MaxQueries
    /\ \E q \in ChatInputs :
          /\ ~IsExit(q)
          /\ query' = q
    /\ out' = Append(out, Line("chat_prompt", "", <<>>))
    /\ asked' = asked + 1
    /\ pc' = "chat_answer"
    /\ UNCHANGED <<file_path, text, max_chunk_size, chunks, summary_texts,
                   answer_length, best_chunk, calls, exit_status>>

\* AnswerCall with the long answer asking for the medium length band
AnswerCallOneBand(al, q, chunk, raised, result) ==
    IF al = "short"
    THEN Call("qa_pipeline", chunk, q, 0, 0, raised, result)
    ELSE Call("summarizer", chunk, <<>>, MediumMaxLength, MediumMinLength,
              raised, result)

\* lines 79-91: the pipeline called for a class, and with what
AnswerCall(al, q, chunk, raised, result) ==
    IF al = "short"
    THEN Call("qa_pipeline", chunk, q, 0, 0, raised, result)
    ELSE IF al = "long"
    THEN Call("summarizer", chunk, <<>>, LongMaxLength, LongMinLength,
              raised, result)
    ELSE Call("summarizer", chunk, <<>>, MediumMaxLength, MediumMinLength,
              raised, result)

\* lines 84, 89: what is printed before the pipeline is called
AnswerAnnounce(al) ==
    IF al = "short" THEN <<>>
    ELSE IF al = "long" THEN <<Line("generating_detailed", "", <<>>)>>
    ELSE <<Line("generating_explained", "", <<>>)>>

\* lines 81, 86, 91
AnswerLabel(al) ==
    IF al = "short" THEN "Short & Precise"
    ELSE IF al = "long" THEN "Detailed"
    ELSE "Medium-Length Explanation"

\* lines 76-91: the query is classified, a chunk chosen, the pipeline
\* returns and its answer is printed
ChatAnswer ==
    /\ pc = "chat_answer"
    /\ LET al == classify_question_length(query)
           sel == find_best_chunk(text, query, max_chunk_size)
       IN  /\ ~sel.raised
           /\ answer_length' = al
           /\ best_chunk' = sel.value
           /\ \E r \in (IF al = "short" THEN QaResults ELSE SummaryResults) :
                 /\ calls' = Append(calls,
                                 AnswerCall(al, query, sel.value, FALSE, r))
                 /\ out' = out \o AnswerAnnounce(al) \o
                           <<Line("answer", AnswerLabel(al),
                                  IF al = "short" THEN r.answer ELSE r)>>
    /\ pc' = "chat_prompt"
    /\ UNCHANGED <<file_path, text, max_chunk_size, chunks, summary_texts,
                   query, exit_status, asked>>

\* lines 76-91: max() of no chunks raises, or the pipeline raises; nothing
\* in chat_with_document or in main catches either
ChatAnswerRaises ==
    /\ pc = "chat_answer"
    /\ LET al == classify_question_length(query)
           sel == find_best_chunk(text, query, max_chunk_size)
       IN  /\ answer_length' = al
           /\ IF sel.raised
              THEN /\ UNCHANGED <<best_chunk, calls>>
                   /\ Uncaught(out)
              ELSE /\ best_chunk' = sel.value
                   /\ calls' = Append(calls,
                                AnswerCall(al, query, sel.value, TRUE, None))
                   /\ Uncaught(out \o AnswerAnnounce(al))
    /\ UNCHANGED <<file_path, text, max_chunk_size, chunks, summary_texts,
                   query, asked>>

Next ==
    \/ LoadModels
    \/ LoadModelsRaises
    \/ InputPath
    \/ FileNotFound
    \/ FileExists
    \/ LoadDocumentExtracts
    \/ LoadDocumentRaises
    \/ LoadDocumentUnsupported
    \/ Loaded
    \/ NotLoaded
    \/ SummarizeStart
    \/ SummarizeChunk
    \/ SummarizeChunkRaises
    \/ SummarizeEnd
    \/ ChatStart
    \/ ChatExit
    \/ ChatAsk
    \/ ChatAnswer
    \/ ChatAnswerRaises

Spec == Init /\ [][Next]_vars

TypeOK ==
    /\ pc \in {"load_models", "input_path", "check_exists", "load_document",
               "check_loaded", "summarize_document", "summarize_loop",
               "chat_with_document", "chat_prompt", "chat_answer", "done",
               "crashed"}
    /\ exit_status \in {-1, 0, 1}
    /\ asked \in 0..MaxQueries

----------------------------------------------------------------------------
(* Properties of the run *)

Last(sq) == sq[Len(sq)]

\* the positions of the terminal lines of one kind
Shown(kind) == {i \in 1..Len(out) : out[i].kind = kind}

\* the positions of the calls made to one function
CallsOf(fn) == {i \in 1..Len(calls) : calls[i].fn = fn}

ChatPhase == {"chat_with_document", "chat_prompt", "chat_answer"}

\* C4: a pipeline failure while a query is answered ends that query only:
\* the loop goes on to the next prompt and the process does not terminate.
C4_ChatFailureEndsQueryOnly ==
    [][(/\ pc = "chat_answer"
        /\ Len(calls') = Len(calls) + 1
        /\ Last(calls').raised)
       => (pc' = "chat_prompt" /\ exit_status' = -1)]_vars

\* C5: when the path typed at the first prompt is not an existing file the
\* program prints a fatal error, exits with a non-zero status and goes no
\* further: nothing is loaded, no pipeline is called, no summary is printed
\* and no chat prompt is shown.
C5_MissingFileExitsNonZero ==
    Shown("file_not_found") # {} =>
        /\ pc = "done"
        /\ exit_status > 0
        /\ calls = <<>>
        /\ text = None
        /\ Shown("loaded") = {}
        /\ Shown("summary") = {}
        /\ Shown("chat_prompt") = {}

\* the part of C5 the code keeps: after the error nothing else happens
C5_MissingFileGoesNoFurther ==
    Shown("file_not_found") # {} =>
        /\ pc = "done"
        /\ calls = <<>>
        /\ text = None
        /\ Last(out).kind = "file_not_found"

HasDot(path) == \E i \in 1..Len(path) : path[i] = "."

\* the extension of a path: the text after its last ".", none without a "."
Extension(path) ==
    IF HasDot(path)
    THEN LET d == CHOOSE i \in 1..Len(path) :
                     /\ path[i] = "."
                     /\ \A j \in (i + 1)..Len(path) : path[j] # "."
         IN  SubSeq(path, d + 1, Len(path))
    ELSE <<>>

SupportedExtensions == {pdf, docx, txt}

\* C6: the run gets to the summary and the chat loop only if the lowercased
\* extension of the path is pdf, docx or txt, whatever the letter case; for
\* any other extension load_document prints the unsupported-format message
\* and returns no text without raising, nothing is extracted, no pipeline is
\* called, and the run ends before the summary and before any chat prompt.
C6_OnlySupportedExtensionsProceed ==
    pc \notin {"load_models", "input_path", "check_exists", "load_document"}
    /\ Shown("path_prompt") # {}
    /\ Shown("file_not_found") = {}
    => IF Lower(Extension(file_path)) \in SupportedExtensions
       THEN Shown("unsupported_format") = {}
       ELSE /\ Shown("unsupported_format") # {}
            /\ text = None
            /\ calls = <<>>
            /\ pc \in {"check_loaded", "done"}
            /\ exit_status \in {-1, 0}
            /\ Shown("loaded") = {}
            /\ Shown("summary") = {}
            /\ Shown("chat_prompt") = {}

\* the class the two cue lists give a query
ClassOf(q) ==
    IF HasCue(ShortCues, q) THEN "short"
    ELSE IF HasCue(LongCues, q) THEN "long"
    ELSE "medium"

\* C7: every chat iteration whose input is not the exit token makes exactly
\* one pipeline call, on the chunk find_best_chunk selects for the query at
\* chunk size 1500: short -> question answering with (query, chunk), its
\* answer printed under "Short & Precise"; long -> summarization with
\* max_length 500 and min_length 150, printed under "Detailed"; medium ->
\* summarization with max_length 300 and min_length 100, printed under
\* "Medium-Length Explanation".  Reading the input calls no pipeline.
C7_OneCallPerQueryByClass ==
    [][/\ pc = "chat_prompt" => calls' = calls
       /\ pc = "chat_answer" =>
            LET al == ClassOf(query)
                chunk == find_best_chunk(text, query, 1500).value
                c == Last(calls')
            IN  /\ Len(calls') = Len(calls) + 1
                /\ c.arg = chunk
                /\ al = "short" =>
                       /\ c.fn = "qa_pipeline"
                       /\ c.question = query
                /\ al = "long" =>
                       /\ c.fn = "summarizer"
                       /\ c.max_length = 500
                       /\ c.min_length = 150
                /\ al = "medium" =>
                       /\ c.fn = "summarizer"
                       /\ c.max_length = 300
                       /\ c.min_length = 100
                /\ ~c.raised =>
                       /\ Last(out').kind = "answer"
                       /\ Last(out').text =
                              (IF al = "short" THEN c.result.answer
                               ELSE c.result)
                       /\ Last(out').label =
                              (IF al = "short" THEN "Short & Precise"
                               ELSE IF al = "long" THEN "Detailed"
                               ELSE "Medium-Length Explanation")
                       /\ \A i \in (Len(out) + 1)..(Len(out') - 1) :
                              out'[i].kind # "answer"]_vars

C7_Witness ==
    /\ pc = "chat_prompt"
    /\ asked = 2
    /\ answer_length = "medium"
    /\ Len(ChunkList(text, 1500)) = 2
    /\ best_chunk = ChunkList(text, 1500)[2]
    /\ Last(calls).arg = best_chunk
    /\ Last(out).label = "Medium-Length Explanation"
    /\ \E i \in 1..Len(calls) : calls[i].max_length = 500

\* the spellings of the exit token among the chat inputs
ExitSpellings == {<<"e","x","i","t">>, <<"E","X","I","T">>}

\* C8: "exit" in any letter case at a chat prompt ends the loop and the
\* process with a farewell and status 0, without classifying, selecting a
\* chunk or calling a pipeline for it; any other input goes on to be
\* answered, so at the farewell every earlier query has its answer; nothing
\* is shown after the farewell.
C8_ExitEndsLoopCleanly ==
    /\ [](Shown("goodbye") # {} =>
            /\ pc = "done"
            /\ exit_status = 0
            /\ Last(out).kind = "goodbye"
            /\ Cardinality(Shown("goodbye")) = 1
            /\ Cardinality(Shown("answer")) = asked
            /\ Cardinality(Shown("chat_prompt")) = asked + 1)
    /\ [][pc = "chat_prompt" /\ out' # out =>
            IF query' \in ExitSpellings
            THEN /\ pc' = "done"
                 /\ exit_status' = 0
                 /\ Last(out').kind = "goodbye"
                 /\ calls' = calls
                 /\ answer_length' = answer_length
                 /\ best_chunk' = best_chunk
            ELSE /\ pc' = "chat_answer"
                 /\ Shown("goodbye")' = {}]_vars

C8_Witness ==
    /\ pc = "done"
    /\ query = <<"E","X","I","T">>
    /\ Last(out).kind = "goodbye"
    /\ asked = 2
    /\ Cardinality(Shown("answer")) = 2
    /\ exit_status = 0

RECURSIVE SpaceSeparated(_)
SpaceSeparated(parts) ==
    IF Len(parts) <= 1 THEN Flatten(parts)
    ELSE SpaceSeparated(SubSeq(parts, 1, Len(parts) - 1))
         \o <<" ">> \o Last(parts)

\* C9: after a non-empty document is loaded the summarizer is called exactly
\* once per 800-character chunk of the text, in chunk order, each call on
\* its chunk alone; the summary is the calls' results joined in order by
\* single spaces; it is printed once, after those calls and before the first
\* chat prompt, and never again.
C9_SummaryOncePerChunkInOrder ==
    LET cs == ChunkList(text, 800)
        doc == {i \in CallsOf("summarizer") : calls[i].max_length = 200}
    IN  /\ Cardinality(Shown("summary")) <= 1
        /\ Shown("chat_prompt") # {} => Shown("summary") # {}
        /\ Truthy(text) =>
              /\ doc \subseteq 2..(Len(cs) + 1)
              /\ \A i \in doc : calls[i].arg = cs[i - 1]
              /\ \A i \in doc : \A j \in 2..i : j \in doc
        /\ Shown("summary") # {} =>
              LET p == CHOOSE i \in Shown("summary") : TRUE
              IN  /\ Truthy(text)
                  /\ doc = 2..(Len(cs) + 1)
                  /\ \A i \in doc : ~calls[i].raised
                  /\ out[p].text =
                        SpaceSeparated([k \in 1..Len(cs) |->
                                           calls[k + 1].result])
                  /\ \A i \in Shown("chat_prompt") : p < i
                  /\ \E i \in Shown("loaded") : i < p

C9_Witness ==
    /\ pc = "chat_prompt"
    /\ asked = 2
    /\ Len(ChunkList(text, 800)) = 2
    /\ \E p \in Shown("summary") : out[p].text = <<"s"," ","t","t">>
    /\ Cardinality(CallsOf("summarizer")) = 4

\* C10: the chat loop runs only on a non-empty text, the same in every
\* iteration, so find_best_chunk always has a chunk to choose from and never
\* fails on an empty sequence; a supported file whose text is empty is
\* treated like a failed load: no "loaded" line, no summarizer call, no
\* summary and no chat prompt.
C10_ChatOnlyOnNonEmptyText ==
    /\ [](pc \in ChatPhase =>
            /\ Truthy(text)
            /\ text = calls[1].result
            /\ ChunkList(text, 1500) # <<>>)
    /\ [](pc = "crashed" /\ Shown("chat_prompt") # {} =>
            Last(calls).raised /\ Last(calls).arg = best_chunk)
    /\ [](text = <<>> =>
            /\ Shown("loaded") = {}
            /\ Shown("summary") = {}
            /\ Shown("chat_prompt") = {}
            /\ CallsOf("summarizer") = {}
            /\ CallsOf("qa_pipeline") = {}
            /\ pc \in {"check_loaded", "done"})
    /\ [][(pc \in ChatPhase) => (text' = text)]_vars

C10_Witness ==
    /\ pc = "done"
    /\ text = <<>>
    /\ Len(calls) = 1
    /\ ~calls[1].raised
    /\ exit_status = 0
    /\ Shown("loaded") = {}

C10_WitnessChat ==
    /\ pc = "chat_answer"
    /\ asked = 2
    /\ Len(ChunkList(text, 1500)) = 2

============================================================================
